---------------------------- MODULE Spec2Model ----------------------------
(***************************************************************************)
(* A model of scripts/trabajo.py: the MovieLens prompt-synthesis and       *)
(* answer-scoring script.                                                  *)
(*                                                                         *)
(* Text is modelled as a sequence of tokens.  A title is a sequence of     *)
(* title tokens, a model answer is a sequence of characters, and a prompt  *)
(* is a sequence of records, one per piece the code appends.  Ratings are  *)
(* counted in tenths of a star (35 is 3.5 stars).  numpy's global          *)
(* generator is a small congruential generator: what matters is that its   *)
(* output is a function of its state and that every draw advances it.      *)
(***************************************************************************)
EXTENDS Integers, Sequences, FiniteSets, TLC

VARIABLES
    pc,            \* where the script (or the function under test) stands
    cfg,           \* the command-line options of main
    movies_df,     \* movieId -> [title, normalize_title, genres]
    ratings_df,    \* sequence of [userId, movieId, rating], index = position
    rng,           \* np.random's global state: [state, draws]
    training_df,   \* indices of ratings_df, in draw order
    testing_df,    \* indices of ratings_df, ascending
    prompts,       \* the prompts built so far
    outputs,       \* the model's answers
    predictions,   \* the parsed answers
    results,       \* the rows written to results.csv
    error,         \* the exception that ended the run, or "none"
    model_calls,   \* how many times the text2text pipeline was invoked
    run,           \* 1 for the first run of the script, 2 for the second
    prev,          \* what the first run produced, kept for the second
    examples,      \* generate_prompt's example_ratings, one per prompt
    arg,           \* the arguments of the function under test
    ret            \* its result

vars == <<pc, cfg, movies_df, ratings_df, rng, training_df, testing_df, prompts,
          outputs, predictions, results, error, model_calls, run, prev,
          examples, arg, ret>>

----------------------------------------------------------------------------
(* Bounds of the model. *)

MaxTitleLen == 4
MaxTextLen == 4
MaxRecords == 3
MaxCount == 2
MaxShot == 2

(* Values standing for "nothing here". *)
None == "none"
NoCfg == [dataset_seed |-> 0]
NoCall == [fn |-> "none"]

----------------------------------------------------------------------------
(* Sequences. *)

RECURSIVE SeqsUpTo(_, _)
SeqsUpTo(S, n) ==
    IF n = 0 THEN {<<>>}
    ELSE LET shorter == SeqsUpTo(S, n - 1)
         IN  shorter \cup {Append(s, x) : s \in {t \in shorter : Len(t) = n - 1}, x \in S}

Range(s) == {s[i] : i \in 1..Len(s)}

Swap(s, i, j) == [k \in 1..Len(s) |-> IF k = i THEN s[j] ELSE IF k = j THEN s[i] ELSE s[k]]

Min2(a, b) == IF a <= b THEN a ELSE b

(* In(value): the value is computed once and named in In. *)
With(value, In(_)) == CHOOSE result \in {In(v) : v \in {value}} : TRUE

----------------------------------------------------------------------------
(* Title normalisation (MovieLensDataSet.normalize_movie_titles).           *)
(* A title is a sequence of tokens; the tokens are the substrings the three *)
(* patterns tell apart: a word, a trailing ", The" / ", An" / ", A", the    *)
(* " (1999)" year, and the leading "The " / "An " / "A " a rewrite puts in  *)
(* front.  No token ends in another token's start, so a pattern matches the *)
(* text exactly when it matches the tokens.                                 *)

Year == " (1999)"
Articles == {"The", "An", "A"}
Trailing(article) == ", " \o article
Leading(article) == article \o " "
TitleTokens == {"Foo", Year} \cup {Trailing(a) : a \in Articles}
Titles == SeqsUpTo(TitleTokens, MaxTitleLen) \ {<<>>}

(* The pattern ^(.+), <article> (\(\d{4}\))$ *)
MatchesArticle(title, article) ==
    /\ Len(title) >= 3
    /\ title[Len(title)] = Year
    /\ title[Len(title) - 1] = Trailing(article)

(* Series.str.replace(r"^(.+), <article> (\(\d{4}\))$", r"<article> \1 \2") *)
ReplaceArticle(title, article) ==
    IF MatchesArticle(title, article)
    THEN <<Leading(article)>> \o SubSeq(title, 1, Len(title) - 2) \o <<Year>>
    ELSE title

(* A variant that knows only the first pattern. *)
normalize_title_the_only(title) == ReplaceArticle(title, "The")

normalize_title(title) ==
    ReplaceArticle(ReplaceArticle(ReplaceArticle(title, "The"), "An"), "A")

normalize_movie_titles(df) ==
    [m \in DOMAIN df |-> [df[m] EXCEPT !.normalize_title = normalize_title(df[m].title)]]

----------------------------------------------------------------------------
(* Answer parsing (parse_model_output).  An answer is a sequence of         *)
(* characters.  re.findall returns group 1 of every match and only the      *)
(* first is used, so the optional " stars" after a match never shows.       *)

Digits == {"0", "3", "5"}
Chars == Digits \cup {".", " ", "/"}
Texts == SeqsUpTo(Chars, MaxTextLen)

DigitVal(c) == CASE c = "0" -> 0 [] c = "3" -> 3 [] c = "5" -> 5

(* Position of the first character at or after i that \d matches, 0 if none. *)
RECURSIVE FirstDigit(_, _)
FirstDigit(text, i) ==
    IF i > Len(text) THEN 0
    ELSE IF text[i] \in Digits THEN i
    ELSE FirstDigit(text, i + 1)

(* Group 1 of the first match of (\d(?:.\d)?)(?: stars)? : the unescaped "." *)
(* takes any character of the alphabet.                                      *)
FirstToken(text) ==
    LET i == FirstDigit(text, 1)
    IN  IF i = 0 THEN <<>>
        ELSE IF i + 2 <= Len(text) /\ text[i + 2] \in Digits
             THEN SubSeq(text, i, i + 2)
             ELSE SubSeq(text, i, i)

(* float() of a token of one or three characters, in tenths. *)
Float(token) ==
    IF Len(token) = 1 THEN [ok |-> TRUE, val |-> 10 * DigitVal(token[1]), err |-> None]
    ELSE IF token[2] = "."
         THEN [ok |-> TRUE, val |-> 10 * DigitVal(token[1]) + DigitVal(token[3]), err |-> None]
    ELSE IF token[2] \in Digits
         THEN [ok |-> TRUE,
               val |-> 10 * (100 * DigitVal(token[1]) + 10 * DigitVal(token[2]) + DigitVal(token[3])),
               err |-> None]
    ELSE [ok |-> FALSE, val |-> 0, err |-> "ValueError"]

parse_model_output(output) ==
    LET token == FirstToken(output)
    IN  IF token = <<>> THEN [ok |-> FALSE, val |-> 0, err |-> "IndexError"]
        ELSE Float(token)

----------------------------------------------------------------------------
(* The data: ml-latest-small.  ratings.csv is ordered by userId, then       *)
(* movieId, holds one row for a user and a movie, and no rating of 0.0.     *)

Users == {1, 2}
Movies == {1, 2, 3}
Ratings == {35, 50}

Catalog ==
    [m \in Movies |->
        IF m = 1
        THEN [title |-> <<"Matrix", ", The", Year>>, normalize_title |-> <<>>,
              genres |-> <<"Action", "Sci-Fi">>]
        ELSE IF m = 2
        THEN [title |-> <<"Heat", Year>>, normalize_title |-> <<>>,
              genres |-> <<"Crime">>]
        ELSE [title |-> <<"Bug's Life", ", A", Year>>, normalize_title |-> <<>>,
              genres |-> <<"Animation", "Comedy">>]]

Before(a, b) ==
    \/ a.userId < b.userId
    \/ a.userId = b.userId /\ a.movieId < b.movieId

RECURSIVE SetToSeq(_)
SetToSeq(S) ==
    IF S = {} THEN <<>>
    ELSE LET x == CHOOSE y \in S : TRUE
         IN  <<x>> \o SetToSeq(S \ {x})

Datasets ==
    UNION {
        {SortSeq(SetToSeq({[userId |-> k[1], movieId |-> k[2], rating |-> f[k]] : k \in K}), Before)
            : f \in [K -> Ratings]}
        : K \in {k \in SUBSET (Users \X Movies) : Cardinality(k) \in 1..MaxRecords}}

----------------------------------------------------------------------------
(* np.random's global generator.  state is the generator's state; draws     *)
(* counts the values it has handed out since the process started.           *)

RngStates == 0..7

(* A variant that seeds some other generator and leaves this one alone. *)
np_random_seed_elsewhere(r, seed) == r

(* np.random.seed(seed) *)
np_random_seed(r, seed) == [state |-> (3 * seed + 1) % 8, draws |-> r.draws]

(* One value in 0..max, and the generator after it. *)
random_interval(r, max) ==
    [val |-> r.state % (max + 1),
     rng |-> [state |-> (5 * r.state + 3) % 8, draws |-> r.draws + 1]]

(* RandomState.shuffle: for i in reversed(range(1, n)): swap x[i], x[random_interval(i)] *)
RECURSIVE shuffle(_, _, _)
shuffle(x, i, r) ==
    IF i < 2 THEN [out |-> x, rng |-> r]
    ELSE With(random_interval(r, i - 1), LAMBDA d :
         With(Swap(x, i, d.val + 1), LAMBDA swapped :
            shuffle(swapped, i - 1, d.rng)))

(* RandomState.choice(n, size, replace=False): permutation(n)[:size] *)
choice(n, size, r) ==
    With(shuffle([i \in 1..n |-> i], n, r), LAMBDA p :
        [out |-> SubSeq(p.out, 1, size), rng |-> p.rng])

(* A variant that draws with replacement (replace=True). *)
RECURSIVE draw_again(_, _, _, _)
draw_again(rows, n, out, r) ==
    IF n = 0 THEN [ok |-> TRUE, out |-> out, rng |-> r]
    ELSE With(random_interval(r, Len(rows) - 1), LAMBDA d :
         With(Append(out, rows[d.val + 1]), LAMBDA longer :
            draw_again(rows, n - 1, longer, d.rng)))

df_sample_replace(rows, n, r) ==
    IF rows = <<>> /\ n > 0 THEN [ok |-> FALSE, out |-> <<>>, rng |-> r]
    ELSE draw_again(rows, n, <<>>, r)

(* DataFrame.sample(n=n, replace=False) over the rows `rows`: the rows drawn, *)
(* in draw order.                                                             *)
df_sample(rows, n, r) ==
    IF n > Len(rows) THEN [ok |-> FALSE, out |-> <<>>, rng |-> r]
    ELSE With(choice(Len(rows), n, r), LAMBDA c :
            [ok |-> TRUE, out |-> [i \in 1..n |-> rows[c.out[i]]], rng |-> c.rng])

----------------------------------------------------------------------------
(* MovieLensDataSet *)

(* A variant that rounds to the nearest integer. *)
training_size_rounded(n, ratio) == (2 * n * ratio[1] + ratio[2]) \div (2 * ratio[2])

(* int(len(ratings_df) * training_ratio), the ratio a fraction num/den. *)
training_size(n, ratio) == (n * ratio[1]) \div ratio[2]

RECURSIVE Ascending(_, _)
Ascending(n, S) ==
    IF n = 0 THEN <<>>
    ELSE IF n \in S THEN Append(Ascending(n - 1, S), n) ELSE Ascending(n - 1, S)

(* __init__, after the two files are read: the partition. *)
MovieLensDataSet_init(df, training_ratio, r) ==
    With(df_sample([i \in 1..Len(df) |-> i], training_size(Len(df), training_ratio), r),
         LAMBDA s :
            [training_df |-> s.out,
             testing_df |-> Ascending(Len(df), (1..Len(df)) \ Range(s.out)),
             rng |-> s.rng])

get_movie_name(mdf, movie_id) == mdf[movie_id].normalize_title

get_movie_genres(mdf, movie_id) == mdf[movie_id].genres

(* Twice the median, in tenths, of the ratings of the movie. *)
get_movie_global_rating(df, movie_id) ==
    LET rs == SortSeq(SetToSeq({i \in 1..Len(df) : df[i].movieId = movie_id}),
                      LAMBDA a, b : df[a].rating < df[b].rating \/ (df[a].rating = df[b].rating /\ a < b))
        n == Len(rs)
    IN  IF n = 0 THEN -1
        ELSE IF n % 2 = 1 THEN 2 * df[rs[(n + 1) \div 2]].rating
        ELSE df[rs[n \div 2]].rating + df[rs[n \div 2 + 1]].rating

----------------------------------------------------------------------------
(* Preference sampling and context rendering.  `dataset` is the             *)
(* MovieLensDataSet: [movies_df, ratings_df, training_df, testing_df].      *)

(* One piece of generated text: a literal, a context sentence, a task       *)
(* description or the rating that labels an example.                        *)
NoInfo == [name |-> <<>>, with_genre |-> FALSE, genres |-> <<>>,
           with_global_rating |-> FALSE, average |-> -1]
Lit(s) == [k |-> "lit", s |-> s, r |-> 0, info |-> NoInfo]

(* A variant that falls back to the ratings above when too few match. *)
get_rated_movies_close(dataset, user_id, n, rating, r) ==
    LET df == dataset.ratings_df
        exact == {i \in 1..Len(df) : df[i].userId = user_id /\ df[i].rating = rating}
        close == {i \in 1..Len(df) : df[i].userId = user_id /\ df[i].rating >= rating}
        rated_movies == Ascending(Len(df), IF Cardinality(exact) < n THEN close ELSE exact)
    IN  IF Len(rated_movies) = 0 THEN [out |-> <<>>, rng |-> r]
        ELSE With(df_sample(rated_movies, Min2(Len(rated_movies), n), r), LAMBDA s :
                [out |-> [i \in 1..Len(s.out) |-> df[s.out[i]].movieId], rng |-> s.rng])

get_rated_movies(dataset, user_id, n, rating, r) ==
    LET df == dataset.ratings_df
        rated_movies == Ascending(Len(df),
                            {i \in 1..Len(df) : df[i].userId = user_id /\ df[i].rating = rating})
    IN  IF Len(rated_movies) = 0 THEN [out |-> <<>>, rng |-> r]
        ELSE With(df_sample(rated_movies, Min2(Len(rated_movies), n), r), LAMBDA s :
                [out |-> [i \in 1..Len(s.out) |-> df[s.out[i]].movieId], rng |-> s.rng])

get_movie_info(dataset, movie_id, with_genre, with_global_rating) ==
    [name |-> get_movie_name(dataset.movies_df, movie_id),
     with_genre |-> with_genre,
     genres |-> IF with_genre THEN get_movie_genres(dataset.movies_df, movie_id) ELSE <<>>,
     with_global_rating |-> with_global_rating,
     average |-> IF with_global_rating
                 THEN get_movie_global_rating(dataset.ratings_df, movie_id) ELSE -1]

(* A variant that never switches the prefix to " The". *)
get_rated_movies_context_one_prefix(dataset, rating, sample, with_genre, with_global_rating, initial_prefix) ==
    [i \in 1..Len(sample) |->
        [k |-> "sentence",
         s |-> initial_prefix,
         r |-> rating,
         info |-> get_movie_info(dataset, sample[i], with_genre, with_global_rating)]]

get_rated_movies_context(dataset, rating, sample, with_genre, with_global_rating, initial_prefix) ==
    [i \in 1..Len(sample) |->
        [k |-> "sentence",
         s |-> IF i = 1 THEN initial_prefix ELSE " The",
         r |-> rating,
         info |-> get_movie_info(dataset, sample[i], with_genre, with_global_rating)]]

UserRatings(dataset, user_id) ==
    {dataset.ratings_df[i].rating :
        i \in {j \in 1..Len(dataset.ratings_df) : dataset.ratings_df[j].userId = user_id}}

SetMax(S) == CHOOSE x \in S : \A y \in S : y <= x
SetMin(S) == CHOOSE x \in S : \A y \in S : x <= y

(* A variant that keeps the lowest rating as the anchor. *)
dislike_anchor_kept(user_max_rating, lowest) == lowest

(* if user_max_rating == user_min_rating: user_min_rating = 0.0 *)
dislike_anchor(user_max_rating, lowest) ==
    IF user_max_rating = lowest THEN 0 ELSE lowest

(* get_context from the assert on: the samples are drawn. *)
render_context(dataset, likes_first, with_genre, with_global_rating, user_max_rating, user_min_rating, likes_sample, dislikes_sample, r) ==
    LET rated_context_data ==
            IF likes_first
            THEN <<[rating |-> user_max_rating, sample |-> likes_sample],
                   [rating |-> user_min_rating, sample |-> dislikes_sample]>>
            ELSE <<[rating |-> user_min_rating, sample |-> dislikes_sample],
                   [rating |-> user_max_rating, sample |-> likes_sample]>>
        first == IF rated_context_data[1].sample = <<>> THEN <<>>
                 ELSE get_rated_movies_context(dataset, rated_context_data[1].rating,
                          rated_context_data[1].sample, with_genre, with_global_rating, "A")
        second == IF rated_context_data[2].sample = <<>> THEN <<>>
                  ELSE get_rated_movies_context(dataset, rated_context_data[2].rating,
                           rated_context_data[2].sample, with_genre, with_global_rating,
                           IF first = <<>> THEN "A" ELSE "\n\nThe")
        asserted == likes_sample # <<>> \/ dislikes_sample # <<>>
    IN  [ok |-> asserted,
         err |-> IF asserted THEN None ELSE "AssertionError",
         out |-> IF asserted THEN first \o second ELSE <<>>,
         rng |-> r,
         user_max_rating |-> user_max_rating,
         user_min_rating |-> user_min_rating,
         likes_sample |-> likes_sample,
         dislikes_sample |-> dislikes_sample]

get_context(dataset, user_id, likes_first, likes_count, dislikes_count, with_genre, with_global_rating, r) ==
    LET user_max_rating == SetMax(UserRatings(dataset, user_id))
        user_min_rating == dislike_anchor(user_max_rating, SetMin(UserRatings(dataset, user_id)))
    IN  With(get_rated_movies(dataset, user_id, likes_count, user_max_rating, r), LAMBDA likes :
        With(get_rated_movies(dataset, user_id, dislikes_count, user_min_rating, likes.rng),
             LAMBDA dislikes :
                render_context(dataset, likes_first, with_genre, with_global_rating,
                               user_max_rating, user_min_rating, likes.out, dislikes.out,
                               dislikes.rng)))

----------------------------------------------------------------------------
(* Prompt composition.  `c` is the keyword arguments main passes down.      *)

versioned_descriptions == {1, 2}

get_task_description(dataset, movie_id, task_desc_version, with_genre, with_global_rating) ==
    LET movie_info == get_movie_info(dataset, movie_id, with_genre, with_global_rating)
    IN  IF task_desc_version \in versioned_descriptions
        THEN [ok |-> TRUE, err |-> None,
              out |-> <<[k |-> "task", s |-> IF task_desc_version = 1 THEN "v1" ELSE "v2",
                         r |-> 0, info |-> movie_info]>>]
        ELSE [ok |-> FALSE, err |-> "KeyError", out |-> <<>>]

generate_zeroshot_prompt(dataset, user_id, movie_id, c, r) ==
    With(get_task_description(dataset, movie_id, c.task_desc_version,
                              c.with_genre, c.with_global_rating), LAMBDA task_description :
        IF ~task_description.ok
        THEN [ok |-> FALSE, err |-> task_description.err, out |-> <<>>, rng |-> r]
        ELSE IF ~c.with_context
        THEN [ok |-> TRUE, err |-> None, out |-> task_description.out, rng |-> r]
        ELSE With(get_context(dataset, user_id, c.likes_first, c.likes_count, c.dislikes_count,
                              c.with_genre, c.with_global_rating, r), LAMBDA context :
                IF ~context.ok
                THEN [ok |-> FALSE, err |-> context.err, out |-> <<>>, rng |-> context.rng]
                ELSE [ok |-> TRUE, err |-> None,
                      out |-> context.out \o <<Lit(".\n\n")>> \o task_description.out,
                      rng |-> context.rng]))

(* The loop over example_ratings, from example i on; `prompt` is the text so far. *)
RECURSIVE few_shot(_, _, _, _, _, _)
few_shot(dataset, example_ratings, i, c, prompt, r) ==
    IF i > Len(example_ratings) THEN [ok |-> TRUE, err |-> None, out |-> prompt, rng |-> r]
    ELSE LET example == dataset.ratings_df[example_ratings[i]]
         IN  With(generate_zeroshot_prompt(dataset, example.userId, example.movieId, c, r),
                  LAMBDA z :
                    IF ~z.ok THEN z
                    ELSE With(prompt \o z.out
                                \o <<Lit("\n"),
                                     [k |-> "label", s |-> "", r |-> example.rating, info |-> NoInfo],
                                     Lit("\n\n\n")>>,
                              LAMBDA longer :
                                few_shot(dataset, example_ratings, i + 1, c, longer, z.rng)))

generate_prompt(dataset, user_id, movie_id, c, r) ==
    With(df_sample(dataset.training_df, c.shot, r), LAMBDA example_ratings :
        IF ~example_ratings.ok
        THEN [ok |-> FALSE, err |-> "ValueError", out |-> <<>>, rng |-> r, example_ratings |-> <<>>]
        ELSE With(few_shot(dataset, example_ratings.out, 1, c, <<>>, example_ratings.rng),
                  LAMBDA shots :
            IF ~shots.ok
            THEN [ok |-> FALSE, err |-> shots.err, out |-> <<>>, rng |-> shots.rng,
                  example_ratings |-> example_ratings.out]
            ELSE With(generate_zeroshot_prompt(dataset, user_id, movie_id, c, shots.rng),
                      LAMBDA zero_shot :
                IF ~zero_shot.ok
                THEN [ok |-> FALSE, err |-> zero_shot.err, out |-> <<>>, rng |-> zero_shot.rng,
                      example_ratings |-> example_ratings.out]
                ELSE [ok |-> TRUE, err |-> None, out |-> shots.out \o zero_shot.out,
                      rng |-> zero_shot.rng, example_ratings |-> example_ratings.out])))

(* The list comprehension of main over testing_df, from row i on. *)
RECURSIVE generate_prompts(_, _, _, _, _, _)
generate_prompts(dataset, i, c, built, drawn, r) ==
    IF i > Len(dataset.testing_df)
    THEN [ok |-> TRUE, err |-> None, out |-> built, example_ratings |-> drawn, rng |-> r]
    ELSE LET row == dataset.ratings_df[dataset.testing_df[i]]
         IN  With(generate_prompt(dataset, row.userId, row.movieId, c, r), LAMBDA p :
                IF ~p.ok
                THEN [ok |-> FALSE, err |-> p.err, out |-> built,
                      example_ratings |-> Append(drawn, p.example_ratings), rng |-> p.rng]
                ELSE With(<<Append(built, p.out), Append(drawn, p.example_ratings)>>,
                          LAMBDA more :
                            generate_prompts(dataset, i + 1, c, more[1], more[2], p.rng)))

----------------------------------------------------------------------------
(* What the specifications share. *)

NoError == [type |-> None, at |-> None]
Raised(type, at) == [type |-> type, at |-> at]

(* --training-ratio, as fractions num/den.  The denominators are powers of  *)
(* two, so the float the option holds is the fraction itself and the float  *)
(* product len * training_ratio is exact.                                   *)
TrainingRatios == {<<1, 2>>, <<3, 4>>, <<1, 1>>}

runVars == <<cfg, training_df, testing_df, prompts, outputs, predictions, results, error,
             model_calls, run, prev, examples>>

NoRun ==
    /\ cfg = NoCfg
    /\ training_df = <<>>
    /\ testing_df = <<>>
    /\ prompts = <<>>
    /\ outputs = <<>>
    /\ predictions = <<>>
    /\ results = <<>>
    /\ error = NoError
    /\ model_calls = 0
    /\ run = 1
    /\ prev = None
    /\ examples = <<>>

Dataset == [movies_df |-> movies_df, ratings_df |-> ratings_df,
            training_df |-> training_df, testing_df |-> testing_df]

----------------------------------------------------------------------------
(* SpecTitle: normalize_movie_titles on a catalog of one movie, any title. *)

InitTitle ==
    /\ pc = "read"
    /\ \E t \in Titles :
            movies_df = [m \in {1} |-> [title |-> t, normalize_title |-> <<>>, genres |-> <<>>]]
    /\ ratings_df = <<>>
    /\ rng = [state |-> 0, draws |-> 0]
    /\ NoRun
    /\ arg = NoCall
    /\ ret = None

NormalizeMovieTitles ==
    /\ pc = "read"
    /\ movies_df' = normalize_movie_titles(movies_df)
    /\ pc' = "normalized"
    /\ UNCHANGED <<ratings_df, rng, runVars, arg, ret>>

NextTitle == NormalizeMovieTitles

SpecTitle == InitTitle /\ [][NextTitle]_vars

----------------------------------------------------------------------------
(* SpecParse: parse_model_output on any answer. *)

InitParse ==
    /\ pc = "call"
    /\ \E t \in Texts : arg = [fn |-> "parse_model_output", output |-> t]
    /\ ret = None
    /\ movies_df = Catalog
    /\ ratings_df = <<>>
    /\ rng = [state |-> 0, draws |-> 0]
    /\ NoRun

ParseModelOutput ==
    /\ pc = "call"
    /\ ret' = parse_model_output(arg.output)
    /\ pc' = "returned"
    /\ UNCHANGED <<movies_df, ratings_df, rng, runVars, arg>>

NextParse == ParseModelOutput

SpecParse == InitParse /\ [][NextParse]_vars

----------------------------------------------------------------------------
(* SpecSampler: the constructor's partition, get_rated_movies and           *)
(* get_context, each called once on any data set with the generator in any  *)
(* state.                                                                   *)

InitSampler ==
    /\ pc = "call"
    /\ movies_df = normalize_movie_titles(Catalog)
    /\ ratings_df \in Datasets
    /\ \E st \in RngStates : rng = [state |-> st, draws |-> 0]
    /\ NoRun
    /\ arg = NoCall
    /\ ret = None

Construct ==
    /\ pc = "call"
    /\ \E ratio \in TrainingRatios :
        \E d \in {MovieLensDataSet_init(ratings_df, ratio, rng)} :
            /\ arg' = [fn |-> "__init__", training_ratio |-> ratio]
            /\ training_df' = d.training_df
            /\ testing_df' = d.testing_df
            /\ rng' = d.rng
    /\ pc' = "returned"
    /\ UNCHANGED <<movies_df, ratings_df, cfg, prompts, outputs, predictions, results, error,
                   model_calls, run, prev, examples, ret>>

GetRatedMovies ==
    /\ pc = "call"
    /\ \E user_id \in Users, n \in 0..MaxCount, rating \in Ratings \cup {0} :
        \E s \in {get_rated_movies(Dataset, user_id, n, rating, rng)} :
            /\ arg' = [fn |-> "get_rated_movies", user_id |-> user_id, n |-> n, rating |-> rating]
            /\ ret' = s.out
            /\ rng' = s.rng
    /\ pc' = "returned"
    /\ UNCHANGED <<movies_df, ratings_df, runVars>>

GetContext ==
    /\ pc = "call"
    /\ \E user_id \in {ratings_df[i].userId : i \in 1..Len(ratings_df)},
          likes_first \in BOOLEAN, likes_count \in 0..MaxCount, dislikes_count \in 0..MaxCount,
          with_genre \in BOOLEAN, with_global_rating \in BOOLEAN :
        \E c \in {get_context(Dataset, user_id, likes_first, likes_count, dislikes_count,
                                with_genre, with_global_rating, rng)} :
            /\ arg' = [fn |-> "get_context", user_id |-> user_id, likes_first |-> likes_first,
                       likes_count |-> likes_count, dislikes_count |-> dislikes_count,
                       with_genre |-> with_genre, with_global_rating |-> with_global_rating]
            /\ ret' = c
            /\ rng' = c.rng
    /\ pc' = "returned"
    /\ UNCHANGED <<movies_df, ratings_df, runVars>>

NextSampler == Construct \/ GetRatedMovies \/ GetContext

SpecSampler == InitSampler /\ [][NextSampler]_vars

----------------------------------------------------------------------------
(* Spec: main, from the first np.random.seed to the report.  SpecRerun: the *)
(* script run twice on the same files with the same options, each run up to *)
(* its prompts; the second process starts with its generator in another     *)
(* state.                                                                   *)

Seeds == {0, 1}
Answers == {<<"3", ".", "5">>, <<" ">>}

Configs ==
    [dataset_seed : Seeds,
     training_ratio : TrainingRatios,
     prompt_seed : Seeds,
     likes_count : {0, MaxCount},
     dislikes_count : {MaxCount},
     with_context : BOOLEAN,
     likes_first : BOOLEAN,
     task_desc_version : {1, 2, 3},
     shot : 0..MaxShot,
     with_genre : BOOLEAN,
     with_global_rating : BOOLEAN]

SmallDatasets == {d \in Datasets : \A i \in 1..Len(d) : d[i].movieId # 3}

Init ==
    /\ pc = "start"
    /\ ratings_df \in SmallDatasets
    /\ cfg \in Configs
    /\ movies_df = Catalog
    /\ rng = [state |-> 0, draws |-> 0]
    /\ training_df = <<>>
    /\ testing_df = <<>>
    /\ prompts = <<>>
    /\ outputs = <<>>
    /\ predictions = <<>>
    /\ results = <<>>
    /\ error = NoError
    /\ model_calls = 0
    /\ run = 1
    /\ prev = None
    /\ examples = <<>>
    /\ arg = NoCall
    /\ ret = None

(* np.random.seed(dataset_seed); dataset = MovieLensDataSet(training_ratio) *)
CreateDataset ==
    /\ pc = "start"
    /\ \E d \in {MovieLensDataSet_init(ratings_df, cfg.training_ratio,
                                       np_random_seed(rng, cfg.dataset_seed))} :
           /\ movies_df' = normalize_movie_titles(movies_df)
           /\ training_df' = d.training_df
           /\ testing_df' = d.testing_df
           /\ rng' = d.rng
    /\ pc' = "dataset"
    /\ UNCHANGED <<cfg, ratings_df, prompts, outputs, predictions, results, error, model_calls,
                   run, prev, examples, arg, ret>>

(* np.random.seed(prompt_seed); prompts = [generate_prompt(...) for row in testing_df] *)
GeneratePrompts ==
    /\ pc = "dataset"
    /\ \E g \in {generate_prompts(Dataset, 1, cfg, <<>>, <<>>,
                                   np_random_seed(rng, cfg.prompt_seed))} :
           /\ rng' = g.rng
           /\ examples' = g.example_ratings
           /\ IF g.ok
              THEN /\ prompts' = g.out
                   /\ pc' = "prompts"
                   /\ error' = error
              ELSE /\ prompts' = prompts
                   /\ pc' = "raised"
                   /\ error' = Raised(g.err, "generate_prompt")
    /\ UNCHANGED <<cfg, movies_df, ratings_df, training_df, testing_df, outputs, predictions,
                   results, model_calls, run, prev, arg, ret>>

(* logger.info(prompts[0]); pipeline(...); outputs = [p[0] for p in text2textgenerator(...)] *)
RunModel ==
    /\ pc = "prompts"
    /\ \/ /\ prompts = <<>>
          /\ pc' = "raised"
          /\ error' = Raised("IndexError", "prompts[0]")
          /\ UNCHANGED <<model_calls, outputs>>
       \/ /\ prompts # <<>>
          /\ model_calls' = model_calls + 1
          /\ outputs' \in [1..Len(prompts) -> Answers]
          /\ pc' = "outputs"
          /\ error' = error
       \/ /\ prompts # <<>>
          /\ model_calls' = model_calls + 1
          /\ pc' = "raised"
          /\ error' = Raised("Exception", "text2textgenerator")
          /\ UNCHANGED outputs
    /\ UNCHANGED <<cfg, movies_df, ratings_df, rng, training_df, testing_df, prompts,
                   predictions, results, run, prev, examples, arg, ret>>

(* A variant that scores an answer it cannot parse as 0 and goes on. *)
ParseOutputsLenient ==
    /\ pc = "outputs"
    /\ \E parsed \in {[i \in 1..Len(outputs) |-> parse_model_output(outputs[i])]} :
            predictions' = [i \in 1..Len(outputs) |-> IF parsed[i].ok THEN parsed[i].val ELSE 0]
    /\ pc' = "predictions"
    /\ UNCHANGED <<cfg, movies_df, ratings_df, rng, training_df, testing_df, prompts, outputs,
                   results, error, model_calls, run, prev, examples, arg, ret>>

(* predictions = [parse_model_output(o["generated_text"]) for o in outputs] *)
ParseOutputs ==
    /\ pc = "outputs"
    /\ \E parsed \in {[i \in 1..Len(outputs) |-> parse_model_output(outputs[i])]} :
        LET bad == {i \in 1..Len(outputs) : ~parsed[i].ok}
        IN  IF bad = {}
           THEN /\ predictions' = [i \in 1..Len(outputs) |-> parsed[i].val]
                /\ pc' = "predictions"
                /\ error' = error
           ELSE /\ predictions' = predictions
                /\ pc' = "raised"
                /\ error' = Raised(parsed[SetMin(bad)].err, "parse_model_output")
    /\ UNCHANGED <<cfg, movies_df, ratings_df, rng, training_df, testing_df, prompts, outputs,
                   results, model_calls, run, prev, examples, arg, ret>>

(* The rows of results.csv: zip(prompts, outputs, predictions, testing_df). *)
DumpResults ==
    /\ pc = "predictions"
    /\ results' = [i \in 1..Min2(Min2(Len(prompts), Len(outputs)),
                                 Min2(Len(predictions), Len(testing_df))) |->
                      [Prompt |-> prompts[i],
                       Movie |-> get_movie_name(movies_df, ratings_df[testing_df[i]].movieId),
                       Output |-> outputs[i],
                       Prediction |-> predictions[i],
                       Truth |-> ratings_df[testing_df[i]].rating]]
    /\ pc' = "done"
    /\ UNCHANGED <<cfg, movies_df, ratings_df, rng, training_df, testing_df, prompts, outputs,
                   predictions, error, model_calls, run, prev, examples, arg, ret>>

Next == CreateDataset \/ GeneratePrompts \/ RunModel \/ ParseOutputs \/ DumpResults

Spec == Init /\ [][Next]_vars

(* The script is started again: same files, same options, a new process. *)
Rerun ==
    /\ pc = "prompts"
    /\ run = 1
    /\ prev' = [training_df |-> training_df, testing_df |-> testing_df, prompts |-> prompts]
    /\ run' = 2
    /\ pc' = "start"
    /\ movies_df' = Catalog
    /\ \E st \in {3, 6} : rng' = [state |-> st, draws |-> 0]
    /\ training_df' = <<>>
    /\ testing_df' = <<>>
    /\ prompts' = <<>>
    /\ examples' = <<>>
    /\ UNCHANGED <<cfg, ratings_df, outputs, predictions, results, error, model_calls, arg, ret>>

NextRerun == CreateDataset \/ GeneratePrompts \/ Rerun

SpecRerun == Init /\ [][NextRerun]_vars

----------------------------------------------------------------------------
(* Claims about normalize_movie_titles, under SpecTitle. *)

TheTitle == movies_df[1].title
Normalized == movies_df[1].normalize_title
NameOf(title) == SubSeq(title, 1, Len(title) - 2)
TrailingArticles == {Trailing(a) : a \in Articles}
MatchesAny(title) == \E a \in Articles : MatchesArticle(title, a)
NameEndsInArticle(title) == MatchesAny(title) /\ title[Len(title) - 2] \in TrailingArticles

MovesOneArticle(title, normalized) ==
    /\ \A a \in Articles :
            MatchesArticle(title, a) => normalized = <<Leading(a)>> \o NameOf(title) \o <<Year>>
    /\ ~MatchesAny(title) => normalized = title
    /\ normalize_title(normalized) = normalized

(* C10 as stated: for every title, normalizeTitle moves exactly the one     *)
(* trailing article to the front and leaves <Name> as it is, returns a      *)
(* title matching no pattern unchanged, and is idempotent.                  *)
C10_AsStated == pc = "normalized" => MovesOneArticle(TheTitle, Normalized)

(* C10, amended: the same, for every title whose <Name> does not itself end *)
(* in ", The", ", An" or ", A".                                             *)
C10_OneArticle ==
    (pc = "normalized" /\ ~NameEndsInArticle(TheTitle)) => MovesOneArticle(TheTitle, Normalized)

C10_Witness ==
    /\ pc = "normalized"
    /\ MatchesArticle(TheTitle, "An")
    /\ ~NameEndsInArticle(TheTitle)
    /\ Normalized = <<"An ", "Foo", "Foo", Year>>

----------------------------------------------------------------------------
(* Claims about parse_model_output, under SpecParse. *)

(* C5: the result is the value of the first single digit, with the "." and  *)
(* digit after it if they are there, and the call fails exactly when the    *)
(* answer holds no digit.                                                   *)
C5_FirstToken ==
    pc = "returned" =>
        LET t == arg.output
            i == CHOOSE j \in 0..Len(t) :
                    /\ j > 0 => t[j] \in Digits
                    /\ \A h \in 1..Len(t) : t[h] \in Digits => j > 0 /\ j <= h
        IN  IF i = 0 THEN ~ret.ok
            ELSE /\ ret.ok
                 /\ ret.val \in 0..99
                 /\ ret.val = IF i + 2 <= Len(t) /\ t[i + 1] = "." /\ t[i + 2] \in Digits
                              THEN 10 * DigitVal(t[i]) + DigitVal(t[i + 2])
                              ELSE 10 * DigitVal(t[i])

----------------------------------------------------------------------------
(* Claims about the partition, get_rated_movies and get_context, under      *)
(* SpecSampler.                                                             *)

Called(fn) == pc = "returned" /\ arg.fn = fn

Distinct(s) == \A i, j \in 1..Len(s) : s[i] = s[j] => i = j

Matching(user_id, rating) ==
    {i \in 1..Len(ratings_df) : ratings_df[i].userId = user_id /\ ratings_df[i].rating = rating}

(* C3: sample(u, v, n) is min(n, countMatching(u, v)) distinct items, each  *)
(* rated by u at exactly v.                                                 *)
C3_Sample ==
    Called("get_rated_movies") =>
        LET matching == Matching(arg.user_id, arg.rating)
        IN  /\ Len(ret) = Min2(arg.n, Cardinality(matching))
            /\ Distinct(ret)
            /\ \A j \in 1..Len(ret) : \E i \in matching : ratings_df[i].movieId = ret[j]
            /\ matching = {} => ret = <<>>

C3_Witness ==
    /\ Called("get_rated_movies")
    /\ arg.n = 1
    /\ Cardinality(Matching(arg.user_id, arg.rating)) = 2
    /\ ret = <<2>>

(* C6: get_context fails exactly when the likes sample and the dislikes     *)
(* sample are both empty; a user whose highest and lowest ratings are equal *)
(* gets the anchor 0.0, no dislikes, and each liked item once.              *)
C6_EmptyContext ==
    Called("get_context") =>
        LET given == {ratings_df[i].rating : i \in {j \in 1..Len(ratings_df) :
                                                        ratings_df[j].userId = arg.user_id}}
            highest == CHOOSE x \in given : \A y \in given : y <= x
            lowest == CHOOSE x \in given : \A y \in given : x <= y
            anchor == IF highest = lowest THEN 0 ELSE lowest
            likes == Min2(arg.likes_count, Cardinality(Matching(arg.user_id, highest)))
            dislikes == Min2(arg.dislikes_count, Cardinality(Matching(arg.user_id, anchor)))
        IN  /\ ret.ok <=> ~(likes = 0 /\ dislikes = 0)
            /\ ~ret.ok => ret.err = "AssertionError"
            /\ ret.ok => Len(ret.out) = likes + dislikes /\ ret.out # <<>>
            /\ highest = lowest =>
                /\ ret.user_min_rating = 0
                /\ ret.dislikes_sample = <<>>
                /\ \A i, j \in 1..Len(ret.out) : ret.out[i].info.name = ret.out[j].info.name => i = j

C6_Witness ==
    /\ Called("get_context")
    /\ ~ret.ok
    /\ arg.likes_count = 0
    /\ arg.dislikes_count = 2
    /\ Cardinality(Matching(arg.user_id, 50)) = 2

(* C7: the context is the non-empty blocks, (max, min) if likes_first and   *)
(* (min, max) otherwise, one sentence per sampled item in sampling order    *)
(* with its block's rating; the first sentence starts with "A", a second    *)
(* block starts with a blank line and "The", every other sentence with      *)
(* " The".                                                                  *)
C7_Rendering ==
    (Called("get_context") /\ ret.ok) =>
        LET likes == [rating |-> ret.user_max_rating, sample |-> ret.likes_sample]
            dislikes == [rating |-> ret.user_min_rating, sample |-> ret.dislikes_sample]
            one == IF arg.likes_first THEN likes ELSE dislikes
            two == IF arg.likes_first THEN dislikes ELSE likes
            n1 == Len(one.sample)
            n2 == Len(two.sample)
        IN  /\ Len(ret.out) = n1 + n2
            /\ \A i \in 1..(n1 + n2) :
                LET block == IF i <= n1 THEN one ELSE two
                    item == IF i <= n1 THEN one.sample[i] ELSE two.sample[i - n1]
                IN  /\ ret.out[i].k = "sentence"
                    /\ ret.out[i].r = block.rating
                    /\ ret.out[i].info.name = movies_df[item].normalize_title
                    /\ ret.out[i].s = IF i = 1 THEN "A"
                                      ELSE IF i = n1 + 1 THEN "\n\nThe"
                                      ELSE " The"

C7_Witness ==
    /\ Called("get_context")
    /\ ret.ok
    /\ ~arg.likes_first
    /\ ret.dislikes_sample = <<2>>
    /\ ret.likes_sample = <<3, 1>>
    /\ ret.out[1].r = 35
    /\ ret.out[2].s = "\n\nThe"
    /\ ret.out[3].s = " The"

----------------------------------------------------------------------------
(* Claims about main, under Spec and SpecRerun. *)

Generated == pc \notin {"start", "dataset"}

NameOfMovie(movie_id) == movies_df[movie_id].normalize_title

(* zs reads as the zero-shot prompt of (user_id, movie_id): the task         *)
(* description of the movie, after a context about what the user rated if    *)
(* context is on.                                                            *)
IsZeroShot(zs, user_id, movie_id) ==
    /\ Len(zs) >= 1
    /\ zs[Len(zs)].k = "task"
    /\ zs[Len(zs)].s = (IF cfg.task_desc_version = 1 THEN "v1" ELSE "v2")
    /\ zs[Len(zs)].info.name = NameOfMovie(movie_id)
    /\ IF cfg.with_context
       THEN /\ Len(zs) >= 3
            /\ zs[Len(zs) - 1] = Lit(".\n\n")
            /\ \A t \in 1..(Len(zs) - 2) :
                /\ zs[t].k = "sentence"
                /\ \E i \in 1..Len(ratings_df) :
                    /\ ratings_df[i].userId = user_id
                    /\ ratings_df[i].rating = zs[t].r
                    /\ NameOfMovie(ratings_df[i].movieId) = zs[t].info.name
       ELSE Len(zs) = 1

BlockEnds(prompt) == {t \in 1..Len(prompt) : prompt[t] = Lit("\n\n\n")}

(* Where the j-th example block of the prompt ends; 0 for j = 0. *)
BlockEnd(prompt, j) ==
    IF j = 0 THEN 0
    ELSE CHOOSE t \in BlockEnds(prompt) : Cardinality({e \in BlockEnds(prompt) : e <= t}) = j

(* Prompt i is cfg.shot labelled blocks, one per example drawn, in draw      *)
(* order, then the unlabelled zero-shot prompt of evaluation record i.       *)
WellFormed(i) ==
    LET prompt == prompts[i]
        drawn == examples[i]
        row == ratings_df[testing_df[i]]
        k == cfg.shot
    IN  /\ Len(drawn) = k
        /\ Distinct(drawn)
        /\ Range(drawn) \subseteq Range(training_df)
        /\ Cardinality(BlockEnds(prompt)) = k
        /\ Cardinality({t \in 1..Len(prompt) : prompt[t].k = "label"}) = k
        /\ \A j \in 1..k :
            LET from == BlockEnd(prompt, j - 1) + 1
                to == BlockEnd(prompt, j)
                example == ratings_df[drawn[j]]
            IN  /\ to - from >= 3
                /\ IsZeroShot(SubSeq(prompt, from, to - 3), example.userId, example.movieId)
                /\ prompt[to - 2] = Lit("\n")
                /\ prompt[to - 1].k = "label"
                /\ prompt[to - 1].r = example.rating
        /\ IsZeroShot(SubSeq(prompt, BlockEnd(prompt, k) + 1, Len(prompt)), row.userId, row.movieId)

(* C4 as stated: for every shots = k >= 0 the prompt is k labelled example   *)
(* blocks and the target block; composing a prompt fails only on an unknown *)
(* template version or an empty context.                                    *)
C4_AsStated ==
    /\ pc = "prompts" => Len(prompts) = Len(testing_df) /\ \A i \in 1..Len(prompts) : WellFormed(i)
    /\ error.at = "generate_prompt" => error.type \in {"KeyError", "AssertionError"}

(* C4, amended: the same for k no larger than the training subset; for a    *)
(* larger k the draw fails and no prompt is composed.                       *)
C4_Blocks ==
    /\ pc = "prompts" => Len(prompts) = Len(testing_df) /\ \A i \in 1..Len(prompts) : WellFormed(i)
    /\ error.at = "generate_prompt" => error.type \in {"KeyError", "AssertionError", "ValueError"}
    /\ (Generated /\ testing_df # <<>>) =>
            (error = Raised("ValueError", "generate_prompt") <=> cfg.shot > Len(training_df))

C4_Witness ==
    /\ pc = "prompts"
    /\ cfg.shot = 2
    /\ cfg.with_context
    /\ Len(prompts) = 1
    /\ examples[1] = <<3, 1>>

(* C8: when the template version is unknown, the generator has handed out   *)
(* no value at the moment the error is raised.                              *)
C8_NoDrawBeforeConfigError ==
    (pc = "raised" /\ error.type = "KeyError") => rng.draws = 0

(* C9: the model is invoked at most once and only with one prompt per       *)
(* evaluation record, in order; a failure while composing a prompt leaves   *)
(* it uninvoked; rows are written only when every answer was parsed.        *)
C9_FailFast ==
    /\ model_calls <= 1
    /\ model_calls = 1 =>
        /\ Len(prompts) = Len(testing_df)
        /\ \A i \in 1..Len(prompts) :
                prompts[i][Len(prompts[i])].info.name = NameOfMovie(ratings_df[testing_df[i]].movieId)
    /\ error.at = "generate_prompt" => model_calls = 0 /\ results = <<>>
    /\ error.at = "parse_model_output" => results = <<>>
    /\ results # <<>> =>
        /\ error = NoError
        /\ Len(results) = Len(testing_df)
        /\ Len(predictions) = Len(testing_df)
        /\ \A i \in 1..Len(outputs) : \E t \in 1..Len(outputs[i]) : outputs[i][t] \in Digits

C9_Witness ==
    /\ pc = "raised"
    /\ error = Raised("AssertionError", "generate_prompt")
    /\ Len(testing_df) = 2
    /\ Len(examples) = 2
    /\ model_calls = 0

(* C2: a second run on the same files with the same options partitions the  *)
(* records as the first did and builds the same prompts in the same order.  *)
C2_Deterministic ==
    (run = 2 /\ pc # "start") =>
        /\ training_df = prev.training_df
        /\ testing_df = prev.testing_df
        /\ pc # "raised"
        /\ pc = "prompts" => prompts = prev.prompts

C2_Witness ==
    /\ run = 2
    /\ pc = "prompts"
    /\ rng.draws > 3
    /\ cfg.with_context
    /\ cfg.dataset_seed # cfg.prompt_seed
    /\ Len(prompts) = 2
    /\ prompts = prev.prompts

=============================================================================
